---- MODULE Spec2Model ----
(***************************************************************************)
(* Model of the OCRRAG answer pipeline: the retrieval gate and the quote   *)
(* verification of RAGChat.chat (src/src/rag/chat.py) and the quote        *)
(* extractor, source matcher, verifier and sanitizer of                    *)
(* src/src/utils/quote_verify.py.                                          *)
(*                                                                         *)
(* A text is a sequence of characters, each character a one-character      *)
(* string.  Scores and thresholds are hundredths (0.85 is 85, 0.3 is 30).  *)
(***************************************************************************)
EXTENDS Integers, Sequences, FiniteSets, TLC

(***************************************************************************)
(* Characters                                                              *)
(***************************************************************************)
DQ == "\""
SQ == "'"

UpperChars == <<"A", "B", "C", "D", "E", "F", "G", "H", "I", "J", "K", "L", "M",
                "N", "O", "P", "Q", "R", "S", "T", "U", "V", "W", "X", "Y", "Z">>
LowerChars == <<"a", "b", "c", "d", "e", "f", "g", "h", "i", "j", "k", "l", "m",
                "n", "o", "p", "q", "r", "s", "t", "u", "v", "w", "x", "y", "z">>

\* str.lower() on one character
Lower(c) ==
    IF \E i \in 1..Len(UpperChars) : UpperChars[i] = c
    THEN LowerChars[CHOOSE i \in 1..Len(UpperChars) : UpperChars[i] = c]
    ELSE c

\* the characters the regular expression class \s and str.strip() treat as whitespace
IsSpace(c) == c \in {" ", "\n", "\t", "\r"}

Max(S) == CHOOSE x \in S : \A y \in S : y <= x
Min(S) == CHOOSE x \in S : \A y \in S : x <= y

\* s[i:] with i counted from 0, as a Python slice
Drop(s, i) == SubSeq(s, i + 1, Len(s))

\* s.startswith(p)
StartsWith(s, p) == Len(p) <= Len(s) /\ SubSeq(s, 1, Len(p)) = p

\* p in s
IsSubstring(p, s) == \E i \in 0..(Len(s) - Len(p)) : SubSeq(s, i + 1, i + Len(p)) = p

(***************************************************************************)
(* normalize_text                                                          *)
(***************************************************************************)
LowerText(text) == [i \in 1..Len(text) |-> Lower(text[i])]

\* re.sub(r'\s+', ' ', text) on s[lo..hi]: every maximal run of whitespace
\* becomes one space, written where the run starts (halving the range keeps
\* the evaluation shallow on long texts)
RECURSIVE CollapseRange(_, _, _)
CollapseRange(s, lo, hi) ==
    IF lo > hi THEN <<>>
    ELSE IF lo = hi
    THEN IF ~IsSpace(s[lo]) THEN <<s[lo]>>
         ELSE IF lo > 1 /\ IsSpace(s[lo - 1]) THEN <<>>
         ELSE <<" ">>
    ELSE LET mid == (lo + hi) \div 2
         IN  CollapseRange(s, lo, mid) \o CollapseRange(s, mid + 1, hi)

CollapseSpaces(s) == CollapseRange(s, 1, Len(s))

\* text.strip()
Strip(s) ==
    IF \A i \in 1..Len(s) : IsSpace(s[i]) THEN <<>>
    ELSE SubSeq(s, Min({i \in 1..Len(s) : ~IsSpace(s[i])}),
                   Max({i \in 1..Len(s) : ~IsSpace(s[i])}))

normalize_text(text) == Strip(CollapseSpaces(LowerText(text)))

(***************************************************************************)
(* extract_quotes                                                          *)
(***************************************************************************)
\* minimum content length of a single-quoted span: {10,} in the pattern
MIN_SINGLE_QUOTE_LEN == 10

\* position of the first delim after position pos, 0 when there is none
NextDelim(text, pos, delim) ==
    IF \E j \in (pos + 1)..Len(text) : text[j] = delim
    THEN Min({j \in (pos + 1)..Len(text) : text[j] = delim})
    ELSE 0

\* re.findall of  delim ([^delim]{minLen,}) delim  scanning from position pos:
\* the non-overlapping matches left to right, each as [start, end, quote]
\* with start and end the positions of its two delimiters
RECURSIVE FindSpans(_, _, _, _)
FindSpans(text, pos, delim, minLen) ==
    IF pos > Len(text) THEN <<>>
    ELSE IF text[pos] # delim THEN FindSpans(text, pos + 1, delim, minLen)
    ELSE LET close == NextDelim(text, pos, delim) IN
         IF close = 0 THEN <<>>
         ELSE IF close - pos - 1 >= minLen
         THEN <<[start |-> pos, end |-> close,
                 quote |-> SubSeq(text, pos + 1, close - 1)]>>
              \o FindSpans(text, close + 1, delim, minLen)
         ELSE FindSpans(text, pos + 1, delim, minLen)

double_quotes(text) == FindSpans(text, 1, DQ, 1)

\* single_quotes without the minimum length
single_quotes_AnyLength(text) == FindSpans(text, 1, SQ, 1)

single_quotes(text) == FindSpans(text, 1, SQ, MIN_SINGLE_QUOTE_LEN)

\* the spans extract_quotes reads its quotes from, in the order it returns them
extract_spans(text) == double_quotes(text) \o single_quotes(text)

extract_quotes(text) ==
    [i \in 1..Len(extract_spans(text)) |-> extract_spans(text)[i].quote]

(***************************************************************************)
(* difflib.SequenceMatcher(None, a, b).ratio(), as find_quote_in_source    *)
(* calls it: no junk, and both texts shorter than the 200 characters at    *)
(* which the automatic junk heuristic starts.                              *)
(***************************************************************************)
\* length of the common run of a from i and b from j (positions from 1),
\* inside a[..ahi] and b[..bhi]
RECURSIVE RunLen(_, _, _, _, _, _)
RunLen(a, b, i, j, ahi, bhi) ==
    IF i <= ahi /\ j <= bhi /\ a[i] = b[j]
    THEN 1 + RunLen(a, b, i + 1, j + 1, ahi, bhi)
    ELSE 0

\* find_longest_match(alo, ahi, blo, bhi): the longest matching block of
\* a[alo..ahi] and b[blo..bhi]; of the longest, the one starting earliest in a,
\* and of those the one starting earliest in b; size 0 when nothing matches
find_longest_match(a, b, alo, ahi, blo, bhi) ==
    LET \* the positions of a whose character occurs in b: no block starts elsewhere
        bchars == {b[j] : j \in blo..bhi}
        rows == {i \in alo..ahi : a[i] \in bchars}
        run == [i \in rows |-> [j \in blo..bhi |-> RunLen(a, b, i, j, ahi, bhi)]]
        size == Max({0} \cup {run[i][j] : i \in rows, j \in blo..bhi})
    IN  IF size = 0 THEN [i |-> alo, j |-> blo, size |-> 0]
        ELSE LET bi == Min({i \in rows : \E j \in blo..bhi : run[i][j] = size})
                 bj == Min({j \in blo..bhi : run[bi][j] = size})
             IN  [i |-> bi, j |-> bj, size |-> size]

\* the sum of the sizes of get_matching_blocks(): the longest match, then the
\* same to its left and to its right
RECURSIVE MatchingChars(_, _, _, _, _, _)
MatchingChars(a, b, alo, ahi, blo, bhi) ==
    IF alo > ahi \/ blo > bhi THEN 0
    ELSE LET m == find_longest_match(a, b, alo, ahi, blo, bhi) IN
         IF m.size = 0 THEN 0
         ELSE m.size
              + MatchingChars(a, b, alo, m.i - 1, blo, m.j - 1)
              + MatchingChars(a, b, m.i + m.size, ahi, m.j + m.size, bhi)

\* ratio() >= threshold / 100, where ratio() is 2.0 * matches / (len(a) + len(b))
\* and 1.0 for two empty texts
RatioAtLeast(a, b, threshold) ==
    IF Len(a) + Len(b) = 0 THEN 100 >= threshold
    ELSE 200 * MatchingChars(a, b, 1, Len(a), 1, Len(b)) >= threshold * (Len(a) + Len(b))

(***************************************************************************)
(* find_quote_in_source                                                    *)
(***************************************************************************)
\* Optional[dict]: None, or the source found
None == <<>>
Some(source) == <<source>>

\* FuzzyMatch with the windows started at every offset of the source, the last
\* ones cut short by the end of the source
FuzzyMatch_PastEnd(normalized_quote, normalized_source, threshold) ==
    LET quote_len == Len(normalized_quote) IN
    \E i \in 0..(Len(normalized_source) - 1) :
        RatioAtLeast(normalized_quote,
                     SubSeq(normalized_source, i + 1,
                            Min({i + quote_len, Len(normalized_source)})),
                     threshold)

\* the sliding-window loop over one source: some window of the quote's length
\* reaches the threshold
FuzzyMatch(normalized_quote, normalized_source, threshold) ==
    LET quote_len == Len(normalized_quote) IN
    \E i \in 0..(Len(normalized_source) - quote_len) :
        RatioAtLeast(normalized_quote,
                     SubSeq(normalized_source, i + 1, i + quote_len), threshold)

\* one iteration of the loop over the sources: the exact check, then the windows
SourceMatches(normalized_quote, source, threshold) ==
    LET normalized_source == normalize_text(source.text) IN
    \/ IsSubstring(normalized_quote, normalized_source)
    \/ FuzzyMatch(normalized_quote, normalized_source, threshold)

\* FindFrom giving up after the first source it looks at
FindFrom_FirstOnly(normalized_quote, source_texts, k, threshold) ==
    IF k > Len(source_texts) THEN None
    ELSE IF SourceMatches(normalized_quote, source_texts[k], threshold)
    THEN Some(source_texts[k])
    ELSE None

\* FindFrom keeping the last source that matches instead of the first
RECURSIVE FindFrom_Last(_, _, _, _)
FindFrom_Last(normalized_quote, source_texts, k, threshold) ==
    IF k > Len(source_texts) THEN None
    ELSE LET later == FindFrom_Last(normalized_quote, source_texts, k + 1, threshold) IN
         IF later # None THEN later
         ELSE IF SourceMatches(normalized_quote, source_texts[k], threshold)
         THEN Some(source_texts[k])
         ELSE None

\* the loop over source_texts from index k on
RECURSIVE FindFrom(_, _, _, _)
FindFrom(normalized_quote, source_texts, k, threshold) ==
    IF k > Len(source_texts) THEN None
    ELSE IF SourceMatches(normalized_quote, source_texts[k], threshold)
    THEN Some(source_texts[k])
    ELSE FindFrom(normalized_quote, source_texts, k + 1, threshold)

find_quote_in_source(quote, source_texts, threshold) ==
    FindFrom(normalize_text(quote), source_texts, 1, threshold)

(***************************************************************************)
(* verify_quotes_in_response                                               *)
(***************************************************************************)
\* VerifyLoop putting an unmatched quote at the head of the unverified list
RECURSIVE VerifyLoop_Prepend(_, _, _, _, _, _)
VerifyLoop_Prepend(quotes, k, source_texts, threshold, verified, unverified) ==
    IF k > Len(quotes) THEN [verified |-> verified, unverified |-> unverified]
    ELSE LET source == find_quote_in_source(quotes[k], source_texts, threshold) IN
         IF source # None
         THEN VerifyLoop_Prepend(quotes, k + 1, source_texts, threshold,
                                 Append(verified, [quote |-> quotes[k],
                                                   source_file |-> source[1].filename,
                                                   source_page |-> source[1].page_number]),
                                 unverified)
         ELSE VerifyLoop_Prepend(quotes, k + 1, source_texts, threshold,
                                 verified, <<quotes[k]>> \o unverified)

\* the loop over the quotes from index k on, with the two lists built so far
RECURSIVE VerifyLoop(_, _, _, _, _, _)
VerifyLoop(quotes, k, source_texts, threshold, verified, unverified) ==
    IF k > Len(quotes) THEN [verified |-> verified, unverified |-> unverified]
    ELSE LET source == find_quote_in_source(quotes[k], source_texts, threshold) IN
         IF source # None
         THEN VerifyLoop(quotes, k + 1, source_texts, threshold,
                         Append(verified, [quote |-> quotes[k],
                                           source_file |-> source[1].filename,
                                           source_page |-> source[1].page_number]),
                         unverified)
         ELSE VerifyLoop(quotes, k + 1, source_texts, threshold,
                         verified, Append(unverified, quotes[k]))

\* Status with "partial" and "unverified" the wrong way round
Status_Swapped(verified, unverified) ==
    IF unverified = <<>> THEN "verified"
    ELSE IF verified # <<>> THEN "unverified"
    ELSE "partial"

\* "verified" if not unverified else "partial" if verified else "unverified"
Status(verified, unverified) ==
    IF unverified = <<>> THEN "verified"
    ELSE IF verified # <<>> THEN "partial"
    ELSE "unverified"

verify_quotes_in_response(response, source_texts, threshold) ==
    LET quotes == extract_quotes(response) IN
    IF quotes = <<>>
    THEN [status |-> "no_quotes", verified |-> <<>>, unverified |-> <<>>,
          all_verified |-> TRUE]
    ELSE LET lists == VerifyLoop(quotes, 1, source_texts, threshold, <<>>, <<>>) IN
         [status |-> Status(lists.verified, lists.unverified),
          verified |-> lists.verified,
          unverified |-> lists.unverified,
          all_verified |-> Len(lists.unverified) = 0]

(***************************************************************************)
(* remove_unverified_quotes                                                *)
(***************************************************************************)
UNVERIFIED_MARK ==
    <<"[", "U", "N", "V", "E", "R", "I", "F", "I", "E", "D", " ", "Q", "U", "O",
      "T", "E", " ", "R", "E", "M", "O", "V", "E", "D", "]">>

\* s.replace(old, new) for a non-empty old: the non-overlapping occurrences of
\* old, found left to right, each replaced by new
RECURSIVE Replace(_, _, _)
Replace(s, old, new) ==
    IF Len(s) < Len(old) THEN s
    ELSE IF StartsWith(s, old) THEN new \o Replace(Drop(s, Len(old)), old, new)
    ELSE <<Head(s)>> \o Replace(Tail(s), old, new)

\* the loop over unverified_quotes from index k on
RECURSIVE RemoveLoop(_, _, _)
RemoveLoop(modified, unverified_quotes, k) ==
    IF k > Len(unverified_quotes) THEN modified
    ELSE LET quote == unverified_quotes[k]
             m1 == Replace(modified, <<DQ>> \o quote \o <<DQ>>, UNVERIFIED_MARK)
             m2 == Replace(m1, <<SQ>> \o quote \o <<SQ>>, UNVERIFIED_MARK)
         IN  RemoveLoop(m2, unverified_quotes, k + 1)

remove_unverified_quotes(response, unverified_quotes) ==
    RemoveLoop(response, unverified_quotes, 1)

(***************************************************************************)
(* RAGChat.chat: the fixed texts                                           *)
(***************************************************************************)
\* the system message, which chat never reads again: kept as one string
SYSTEM_PROMPT ==
    "You are a helpful document assistant. Answer questions based ONLY on the provided source documents.\n\nCRITICAL RULES:\n1. ONLY use information from the provided sources. Never use external knowledge.\n2. If the sources don't contain relevant information, say \"I cannot find information about this in the provided documents.\"\n3. Always cite your sources using the format: [Source: filename, Page X]\n4. When quoting text, use exact quotes from the sources.\n5. Be concise and accurate.\n\nYou will receive context from documents in this format:\n---\nSource: [filename], Page [number]\n[text content]\n---\n\nBase your answer ONLY on these sources."

REFUSAL_ANSWER ==
    <<"I", " ", "c", "a", "n", "n", "o", "t", " ", "f", "i", "n", "d", " ",
      "r", "e", "l", "e", "v", "a", "n", "t", " ", "i", "n", "f", "o", "r",
      "m", "a", "t", "i", "o", "n", " ", "i", "n", " ", "t", "h", "e", " ",
      "p", "r", "o", "v", "i", "d", "e", "d", " ", "d", "o", "c", "u", "m",
      "e", "n", "t", "s", " ", "t", "o", " ", "a", "n", "s", "w", "e", "r",
      " ", "t", "h", "i", "s", " ", "q", "u", "e", "s", "t", "i", "o", "n",
      ".">>

REFUSAL_REASON == "No relevant sources found"

UNVERIFIED_NOTE ==
    <<"\n", "\n", "U+26A0", "U+FE0F", " ", "N", "o", "t", "e", ":", " ", "S",
      "o", "m", "e", " ", "q", "u", "o", "t", "e", "d", " ", "t", "e", "x",
      "t", " ", "c", "o", "u", "l", "d", " ", "n", "o", "t", " ", "b", "e",
      " ", "v", "e", "r", "i", "f", "i", "e", "d", " ", "a", "g", "a", "i",
      "n", "s", "t", " ", "s", "o", "u", "r", "c", "e", "s", " ", "a", "n",
      "d", " ", "w", "a", "s", " ", "r", "e", "m", "o", "v", "e", "d", ".">>


Digits == <<"0", "1", "2", "3", "4", "5", "6", "7", "8", "9">>

\* str(n) of an integer n >= 0
RECURSIVE Str(_)
Str(n) ==
    IF n < 10 THEN <<Digits[n + 1]>>
    ELSE Str(n \div 10) \o <<Digits[(n % 10) + 1]>>

(***************************************************************************)
(* The inputs                                                              *)
(***************************************************************************)
\* the longest retrieval result list (n_sources)
MaxSources == 2
\* the longest text enumerated character by character as a response or a quote
MaxTextLen == 4
\* the longest answer of the generation enumerated character by character
MaxAnswerLen == 3

DEFAULT_THRESHOLD == 85
DEFAULT_MIN_RELEVANCE == 30

FILE_A ==
    <<"a", ".", "p", "d", "f">>
FILE_B ==
    <<"b", ".", "p", "d", "f">>

\* the chunks of the indexed documents: rows of the vector store's table
\* (text, filename, page_number, chunk_index)
\* 'Ba'
CHUNK_1_TEXT ==
    <<"B", "a">>
\* 'a  a'
CHUNK_2_TEXT ==
    <<"a", " ", " ", "a">>
\* 'The capital of France is Paris.'
CHUNK_3_TEXT ==
    <<"T", "h", "e", " ", "c", "a", "p", "i", "t", "a", "l", " ", "o", "f",
      " ", "F", "r", "a", "n", "c", "e", " ", "i", "s", " ", "P", "a", "r",
      "i", "s", ".">>
Chunks ==
    {[text |-> CHUNK_1_TEXT, filename |-> FILE_A, page_number |-> 1, chunk_index |-> 0],
     [text |-> CHUNK_2_TEXT, filename |-> FILE_A, page_number |-> 2, chunk_index |-> 0],
     [text |-> CHUNK_3_TEXT, filename |-> FILE_B, page_number |-> 1, chunk_index |-> 1]}

\* a table with long chunks, rows of figures: one of exactly 150 characters,
\* one of 151
\* '0123456789' 15 times
CHUNK_4_TEXT ==
    <<"0", "1", "2", "3", "4", "5", "6", "7", "8", "9", "0", "1", "2", "3",
      "4", "5", "6", "7", "8", "9", "0", "1", "2", "3", "4", "5", "6", "7",
      "8", "9", "0", "1", "2", "3", "4", "5", "6", "7", "8", "9", "0", "1",
      "2", "3", "4", "5", "6", "7", "8", "9", "0", "1", "2", "3", "4", "5",
      "6", "7", "8", "9", "0", "1", "2", "3", "4", "5", "6", "7", "8", "9",
      "0", "1", "2", "3", "4", "5", "6", "7", "8", "9", "0", "1", "2", "3",
      "4", "5", "6", "7", "8", "9", "0", "1", "2", "3", "4", "5", "6", "7",
      "8", "9", "0", "1", "2", "3", "4", "5", "6", "7", "8", "9", "0", "1",
      "2", "3", "4", "5", "6", "7", "8", "9", "0", "1", "2", "3", "4", "5",
      "6", "7", "8", "9", "0", "1", "2", "3", "4", "5", "6", "7", "8", "9",
      "0", "1", "2", "3", "4", "5", "6", "7", "8", "9">>
\* '9876543210' 15 times, then '9'
CHUNK_5_TEXT ==
    <<"9", "8", "7", "6", "5", "4", "3", "2", "1", "0", "9", "8", "7", "6",
      "5", "4", "3", "2", "1", "0", "9", "8", "7", "6", "5", "4", "3", "2",
      "1", "0", "9", "8", "7", "6", "5", "4", "3", "2", "1", "0", "9", "8",
      "7", "6", "5", "4", "3", "2", "1", "0", "9", "8", "7", "6", "5", "4",
      "3", "2", "1", "0", "9", "8", "7", "6", "5", "4", "3", "2", "1", "0",
      "9", "8", "7", "6", "5", "4", "3", "2", "1", "0", "9", "8", "7", "6",
      "5", "4", "3", "2", "1", "0", "9", "8", "7", "6", "5", "4", "3", "2",
      "1", "0", "9", "8", "7", "6", "5", "4", "3", "2", "1", "0", "9", "8",
      "7", "6", "5", "4", "3", "2", "1", "0", "9", "8", "7", "6", "5", "4",
      "3", "2", "1", "0", "9", "8", "7", "6", "5", "4", "3", "2", "1", "0",
      "9", "8", "7", "6", "5", "4", "3", "2", "1", "0", "9">>
LongChunks ==
    {[text |-> CHUNK_4_TEXT, filename |-> FILE_A, page_number |-> 1, chunk_index |-> 0],
     [text |-> CHUNK_5_TEXT, filename |-> FILE_A, page_number |-> 1, chunk_index |-> 1]}

\* the tables the vector store can hold when chat is called
Stores == {Chunks, LongChunks}

\* answers a generation can give, beyond the short texts
\* The document states "The capital of France is Paris."
ANSWER_1 ==
    <<"T", "h", "e", " ", "d", "o", "c", "u", "m", "e", "n", "t", " ", "s",
      "t", "a", "t", "e", "s", " ", "\"", "T", "h", "e", " ", "c", "a", "p",
      "i", "t", "a", "l", " ", "o", "f", " ", "F", "r", "a", "n", "c", "e",
      " ", "i", "s", " ", "P", "a", "r", "i", "s", ".", "\"">>
\* It says "the  capital of FRANCE".
ANSWER_2 ==
    <<"I", "t", " ", "s", "a", "y", "s", " ", "\"", "t", "h", "e", " ", " ",
      "c", "a", "p", "i", "t", "a", "l", " ", "o", "f", " ", "F", "R", "A",
      "N", "C", "E", "\"", ".">>
\* It says "The capital of France is Pariz."
ANSWER_3 ==
    <<"I", "t", " ", "s", "a", "y", "s", " ", "\"", "T", "h", "e", " ", "c",
      "a", "p", "i", "t", "a", "l", " ", "o", "f", " ", "F", "r", "a", "n",
      "c", "e", " ", "i", "s", " ", "P", "a", "r", "i", "z", ".", "\"">>
\* It says "Paris is in France" and "a".
ANSWER_4 ==
    <<"I", "t", " ", "s", "a", "y", "s", " ", "\"", "P", "a", "r", "i", "s",
      " ", "i", "s", " ", "i", "n", " ", "F", "r", "a", "n", "c", "e", "\"",
      " ", "a", "n", "d", " ", "\"", "a", "\"", ".">>
\* ""B""
ANSWER_5 ==
    <<"\"", "\"", "B", "\"", "\"">>
\* "B"'B'
ANSWER_6 ==
    <<"\"", "B", "\"", "'", "B", "'">>
\* "B""a"B"a"
ANSWER_7 ==
    <<"\"", "B", "\"", "\"", "a", "\"", "B", "\"", "a", "\"">>
\* 'aaaa "B" aaaa'
ANSWER_8 ==
    <<"'", "a", "a", "a", "a", " ", "\"", "B", "\"", " ", "a", "a", "a", "a",
      "'">>
\* It's 'the capital of France' and 'Lyon is not'
ANSWER_9 ==
    <<"I", "t", "'", "s", " ", "'", "t", "h", "e", " ", "c", "a", "p", "i",
      "t", "a", "l", " ", "o", "f", " ", "F", "r", "a", "n", "c", "e", "'",
      " ", "a", "n", "d", " ", "'", "L", "y", "o", "n", " ", "i", "s", " ",
      "n", "o", "t", "'">>
\* It's here, don't go
ANSWER_10 ==
    <<"I", "t", "'", "s", " ", "h", "e", "r", "e", ",", " ", "d", "o", "n",
      "'", "t", " ", "g", "o">>
HandTexts ==
    {ANSWER_1, ANSWER_2, ANSWER_3, ANSWER_4, ANSWER_5, ANSWER_6, ANSWER_7, ANSWER_8, ANSWER_9,
     ANSWER_10}


\* quotes to look up, beyond the short texts
\* 'The capital of France is Pariz.'
QUOTE_1 ==
    <<"T", "h", "e", " ", "c", "a", "p", "i", "t", "a", "l", " ", "o", "f",
      " ", "F", "r", "a", "n", "c", "e", " ", "i", "s", " ", "P", "a", "r",
      "i", "z", ".">>
\* 'Paris is in France'
QUOTE_2 ==
    <<"P", "a", "r", "i", "s", " ", "i", "s", " ", "i", "n", " ", "F", "r",
      "a", "n", "c", "e">>
\* 'the  capital\nof FRANCE'
QUOTE_3 ==
    <<"t", "h", "e", " ", " ", "c", "a", "p", "i", "t", "a", "l", "\n", "o",
      "f", " ", "F", "R", "A", "N", "C", "E">>
\* '  '
QUOTE_4 ==
    <<" ", " ">>
HandQuotes ==
    {QUOTE_1, QUOTE_2, QUOTE_3, QUOTE_4}

\* every text of at most n characters over the alphabet
ShortTexts(alphabet, n) == UNION {[1..k -> alphabet] : k \in 0..n}

\* similarity scores a search can give, and the thresholds a caller can ask for
Scores == {10, 30, 50}
MinRelevances == {DEFAULT_MIN_RELEVANCE, 50}

\* a row of the search: SearchResult(text, filename, page_number, chunk_index, score)
SearchResult(chunk, score) ==
    [text |-> chunk.text, filename |-> chunk.filename,
     page_number |-> chunk.page_number, chunk_index |-> chunk.chunk_index,
     score |-> score]

SameChunk(r1, r2) ==
    /\ r1.filename = r2.filename
    /\ r1.page_number = r2.page_number
    /\ r1.chunk_index = r2.chunk_index

\* what VectorStore.search can return from the table for n_results and
\* filename_filter: at most n_results rows, each chunk once, ORDER BY distance
\* (score descending), WHERE filename = filename_filter when a filter is given
SearchRows(table, n_results, filename_filter) ==
    LET rows == {SearchResult(c, sc) : c \in table, sc \in Scores} IN
    {rs \in UNION {[1..k -> rows] : k \in 0..n_results} :
        /\ \A i, j \in 1..Len(rs) : i < j =>
              ~SameChunk(rs[i], rs[j]) /\ rs[i].score >= rs[j].score
        /\ filename_filter # None =>
              \A i \in 1..Len(rs) : rs[i].filename = filename_filter[1]}

\* answers the generation can give
Answers == HandTexts \cup ShortTexts({"a", "B", DQ}, MaxAnswerLen)

Queries == {<<"a", "?">>}

(***************************************************************************)
(* RAGChat.chat                                                            *)
(***************************************************************************)
VARIABLES
    pc,                 \* "idle", "searching", "generating", "done", "failed"
    args,               \* the arguments of the call of chat being served
    results,            \* what vector_store.search returned
    relevant_results,   \* results filtered by min_relevance
    messages,           \* the messages given to the generation
    draft,              \* the answer the generation returned
    response,           \* None, or the ChatResponse returned
    calls,              \* the collaborators and helpers called, in order
    store               \* the rows of the vector store's table

chatVars == <<pc, args, results, relevant_results, messages, draft, response, calls,
              store>>

NoArgs == [query |-> <<>>, n_sources |-> 0, min_relevance |-> 0,
           verify_quotes |-> FALSE, filename_filter |-> None]

\* no call of chat is being served
NoCall ==
    /\ pc = "idle"
    /\ args = NoArgs
    /\ results = <<>>
    /\ relevant_results = <<>>
    /\ messages = <<>>
    /\ draft = <<>>
    /\ response = None
    /\ calls = <<>>

\* the documents are indexed before chat is called
ChatInit == NoCall /\ store \in Stores

\* no RAGChat is in use
ChatIdle == NoCall /\ store = {}

\* RelevantResults dropping a score equal to min_relevance
RelevantResults_Strict(rs, min_relevance) ==
    SelectSeq(rs, LAMBDA r : r.score > min_relevance)

\* RelevantResults without the filter
RelevantResults_Unfiltered(rs, min_relevance) == rs

\* [r for r in results if r.score >= min_relevance]
RelevantResults(rs, min_relevance) ==
    SelectSeq(rs, LAMBDA r : r.score >= min_relevance)

\* "\n\n".join(parts)
RECURSIVE JoinParts(_)
JoinParts(parts) ==
    IF parts = <<>> THEN <<>>
    ELSE IF Len(parts) = 1 THEN parts[1]
    ELSE parts[1] \o <<"\n", "\n">> \o JoinParts(Tail(parts))

_format_context(rs) ==
    JoinParts([i \in 1..Len(rs) |->
        <<"-", "-", "-", "\n", "S", "o", "u", "r", "c", "e", ":", " ">>
        \o rs[i].filename \o <<",", " ", "P", "a", "g", "e", " ">>
        \o Str(rs[i].page_number) \o <<"\n">> \o rs[i].text
        \o <<"\n", "-", "-", "-">>])

_build_sources_for_verification(rs) ==
    [i \in 1..Len(rs) |-> [text |-> rs[i].text, filename |-> rs[i].filename,
                           page_number |-> rs[i].page_number]]

BuildMessages(query, rs) ==
    <<[role |-> "system", content |-> SYSTEM_PROMPT],
      [role |-> "user",
       content |-> <<"C", "o", "n", "t", "e", "x", "t", " ", "f", "r", "o", "m",
                     " ", "d", "o", "c", "u", "m", "e", "n", "t", "s", ":",
                     "\n", "\n">>
                   \o _format_context(rs)
                   \o <<"\n", "\n", "Q", "u", "e", "s", "t", "i", "o", "n", ":", " ">>
                   \o query]>>

SNIPPET_LEN == 150

Snippet(text) ==
    IF Len(text) > SNIPPET_LEN
    THEN SubSeq(text, 1, SNIPPET_LEN) \o <<".", ".", ".">>
    ELSE text

BuildCitations(rs) ==
    [i \in 1..Len(rs) |-> [filename |-> rs[i].filename,
                           page_number |-> rs[i].page_number,
                           snippet |-> Snippet(rs[i].text),
                           relevance_score |-> rs[i].score]]

Refusal ==
    [answer |-> REFUSAL_ANSWER, citations |-> <<>>, sources_used |-> <<>>,
     quote_verification |-> [status |-> "no_sources"],
     refused |-> TRUE, refusal_reason |-> Some(REFUSAL_REASON)]

\* QuoteVerification that does not look at verify_quotes
QuoteVerification_Always(verify_quotes, answer, rs) ==
    verify_quotes_in_response(answer, _build_sources_for_verification(rs),
                              DEFAULT_THRESHOLD)

\* the quote verification of chat: skipped unless verify_quotes
QuoteVerification(verify_quotes, answer, rs) ==
    IF verify_quotes
    THEN verify_quotes_in_response(answer, _build_sources_for_verification(rs),
                                   DEFAULT_THRESHOLD)
    ELSE [status |-> "skipped"]

\* FinalAnswer that removes the quotes and leaves the note out
FinalAnswer_NoNote(verify_quotes, answer, quote_verification) ==
    IF verify_quotes /\ ~quote_verification.all_verified
    THEN remove_unverified_quotes(answer, quote_verification.unverified)
    ELSE answer

\* the answer chat returns: sanitized, with the note, when a quote is unverified
FinalAnswer(verify_quotes, answer, quote_verification) ==
    IF verify_quotes /\ ~quote_verification.all_verified
    THEN remove_unverified_quotes(answer, quote_verification.unverified)
         \o UNVERIFIED_NOTE
    ELSE answer

\* the helpers the last part of chat calls, in order
VerificationCalls(verify_quotes, quote_verification) ==
    IF ~verify_quotes THEN <<>>
    ELSE IF quote_verification.all_verified
    THEN <<"verify_quotes_in_response", "extract_quotes">>
    ELSE <<"verify_quotes_in_response", "extract_quotes", "remove_unverified_quotes">>

\* NoRelevantSources testing the raw results instead of the filtered ones
NoRelevantSources_Raw(rs, relevant) == rs = <<>>

\* if not relevant_results
NoRelevantSources(rs, relevant) == relevant = <<>>

\* chat is called: it calls vector_store.search
Chat(query, n_sources, min_relevance, verify_quotes, filename_filter) ==
    /\ pc = "idle"
    /\ pc' = "searching"
    /\ args' = [query |-> query, n_sources |-> n_sources,
                min_relevance |-> min_relevance, verify_quotes |-> verify_quotes,
                filename_filter |-> filename_filter]
    /\ calls' = <<"search">>
    /\ UNCHANGED <<results, relevant_results, messages, draft, response, store>>

\* the search returns rs: the relevance gate, then the refusal or the call of
\* the generation
SearchReturns(rs) ==
    /\ pc = "searching"
    /\ results' = rs
    /\ relevant_results' = RelevantResults(rs, args.min_relevance)
    /\ IF NoRelevantSources(rs, relevant_results')
       THEN /\ response' = Some(Refusal)
            /\ pc' = "done"
            /\ calls' = Append(calls, "search returned")
            /\ UNCHANGED messages
       ELSE /\ messages' = BuildMessages(args.query, relevant_results')
            /\ pc' = "generating"
            /\ calls' = calls \o <<"search returned", "generate">>
            /\ UNCHANGED response
    /\ UNCHANGED <<args, draft, store>>

\* the search raises: chat catches nothing
SearchRaises ==
    /\ pc = "searching"
    /\ pc' = "failed"
    /\ calls' = Append(calls, "search raised")
    /\ UNCHANGED <<args, results, relevant_results, messages, draft, response, store>>

\* the generation returns answer: citations, verification, the response
GenerateReturns(answer) ==
    /\ pc = "generating"
    /\ draft' = answer
    /\ LET quote_verification ==
               QuoteVerification(args.verify_quotes, answer, relevant_results)
       IN  /\ response' = Some(
                  [answer |-> FinalAnswer(args.verify_quotes, answer, quote_verification),
                   citations |-> BuildCitations(relevant_results),
                   sources_used |-> relevant_results,
                   quote_verification |-> quote_verification,
                   refused |-> FALSE, refusal_reason |-> None])
           /\ calls' = calls \o <<"generate returned">>
                       \o VerificationCalls(args.verify_quotes, quote_verification)
    /\ pc' = "done"
    /\ UNCHANGED <<args, results, relevant_results, messages, store>>

\* the generation raises: chat catches nothing
GenerateRaises ==
    /\ pc = "generating"
    /\ pc' = "failed"
    /\ calls' = Append(calls, "generate raised")
    /\ UNCHANGED <<args, results, relevant_results, messages, draft, response, store>>

\* the caller has the response or the exception; everything of the call is dropped
Return ==
    /\ pc \in {"done", "failed"}
    /\ pc' = "idle"
    /\ args' = NoArgs
    /\ results' = <<>>
    /\ relevant_results' = <<>>
    /\ messages' = <<>>
    /\ draft' = <<>>
    /\ response' = None
    /\ calls' = <<>>
    /\ UNCHANGED store

(***************************************************************************)
(* The functions of quote_verify.py on their own: a text, a source list    *)
(* and a threshold are drawn, and one of the functions is applied          *)
(***************************************************************************)
VARIABLES
    q_text,         \* the text given: the response, or the quote of find_quote_in_source
    q_sources,      \* source_texts
    q_threshold,    \* threshold
    q_unverified,   \* remove_unverified_quotes: which extracted quotes it is given
    q_op,           \* "input", or the function applied
    q_out           \* what the function returned

qvVars == <<q_text, q_sources, q_threshold, q_unverified, q_op, q_out>>


Thresholds == {50, DEFAULT_THRESHOLD}

\* the texts tried as responses and as quotes
Texts == HandTexts \cup HandQuotes \cup ShortTexts({"a", "B", " ", DQ}, MaxTextLen)

\* the texts tried as the quote of find_quote_in_source called on its own:
\* those without a double quote character, as the double-quoted pattern of
\* extract_quotes gives them (a single-quoted one can hold the character, and
\* reaches the function through verify_quotes_in_response)
QuoteTexts == {t \in Texts : \A i \in 1..Len(t) : t[i] # DQ}

\* source_texts: dicts with text, filename and page_number
SourceDicts ==
    {[text |-> c.text, filename |-> c.filename, page_number |-> c.page_number] :
        c \in Chunks}

\* the lists of at most MaxSources sources, each source once
SourceLists ==
    {ss \in UNION {[1..k -> SourceDicts] : k \in 0..MaxSources} :
        \A i, j \in 1..Len(ss) : i < j => ss[i] # ss[j]}

QVInit ==
    /\ q_text \in Texts
    /\ q_sources \in SourceLists
    /\ q_threshold = DEFAULT_THRESHOLD
    /\ q_unverified = <<>>
    /\ q_op = "input"
    /\ q_out = <<>>

\* the quotes of the extracted spans that the flags pick, in extraction order
RECURSIVE Picked(_, _, _)
Picked(quotes, flags, k) ==
    IF k > Len(quotes) THEN <<>>
    ELSE (IF flags[k] THEN <<quotes[k]>> ELSE <<>>) \o Picked(quotes, flags, k + 1)

ExtractQuotes ==
    /\ q_op = "input"
    /\ q_op' = "extract_quotes"
    /\ q_out' = extract_quotes(q_text)
    /\ UNCHANGED <<q_text, q_sources, q_threshold, q_unverified>>

FindQuoteInSource(threshold) ==
    /\ q_op = "input"
    /\ q_text \in QuoteTexts
    /\ q_op' = "find_quote_in_source"
    /\ q_threshold' = threshold
    /\ q_out' = find_quote_in_source(q_text, q_sources, threshold)
    /\ UNCHANGED <<q_text, q_sources, q_unverified>>

VerifyQuotesInResponse(threshold) ==
    /\ q_op = "input"
    /\ q_op' = "verify_quotes_in_response"
    /\ q_threshold' = threshold
    /\ q_out' = verify_quotes_in_response(q_text, q_sources, threshold)
    /\ UNCHANGED <<q_text, q_sources, q_unverified>>

\* flags[i]: the i-th extracted quote is given as unverified
RemoveUnverifiedQuotes(flags) ==
    /\ q_op = "input"
    /\ q_op' = "remove_unverified_quotes"
    /\ q_unverified' = flags
    /\ q_out' = remove_unverified_quotes(q_text, Picked(extract_quotes(q_text), flags, 1))
    /\ UNCHANGED <<q_text, q_sources, q_threshold>>

\* no function of quote_verify.py is being applied on its own
QVIdle ==
    /\ q_text = <<>>
    /\ q_sources = <<>>
    /\ q_threshold = DEFAULT_THRESHOLD
    /\ q_unverified = <<>>
    /\ q_op = "idle"
    /\ q_out = <<>>

(***************************************************************************)
(* chunk_text (embeddings.py): its loop one iteration at a time.  start and *)
(* end are the 0-based positions of the code.                              *)
(***************************************************************************)
\* the longest text given to chunk_text
MaxChunkTextLen == 5
\* the largest chunk_size and the largest overlap given
MaxChunkSize == 4
MaxOverlap == 4
\* the iterations of the loop followed; a run that ends makes at most one per
\* character, since its cursor takes a new position on each
MaxIterations == MaxChunkTextLen + 1

\* how far before end the break is looked for
BREAK_LOOKBACK == 100

VARIABLES
    ct_pc,          \* "idle", "called", "loop", "returned"
    ct_text,        \* text
    ct_chunk_size,  \* chunk_size
    ct_overlap,     \* overlap
    ct_start,       \* start, the cursor of the loop
    ct_chunks,      \* chunks
    ct_windows,     \* the [start, end) of each slice taken, in order
    ct_out          \* the list returned

chunkVars == <<ct_pc, ct_text, ct_chunk_size, ct_overlap, ct_start, ct_chunks,
               ct_windows, ct_out>>

\* a slice bound as Python reads it on a text of n characters: counted from the
\* end when negative, and kept within 0..n
SliceIndex(i, n) ==
    IF i < 0 THEN (IF i + n < 0 THEN 0 ELSE i + n)
    ELSE IF i > n THEN n ELSE i

\* text[start:end]
Slice(text, start, end) ==
    LET lo == SliceIndex(start, Len(text))
        hi == SliceIndex(end, Len(text))
    IN  IF lo >= hi THEN <<>> ELSE SubSeq(text, lo + 1, hi)

\* text.rfind(ch, start, end): the highest position in text[start:end] that
\* holds ch, -1 when there is none
rfind(text, ch, start, end) ==
    LET lo == SliceIndex(start, Len(text))
        hi == SliceIndex(end, Len(text))
        at == {i \in lo..(hi - 1) : text[i + 1] = ch}
    IN  IF at = {} THEN -1 ELSE Max(at)

\* the end of the slice that starts at start: start + chunk_size, moved back
\* to just after the last '.' or newline when one lies after start
SliceEnd(text, start, chunk_size) ==
    LET end == start + chunk_size IN
    IF end < Len(text)
    THEN LET last_period == rfind(text, ".", end - BREAK_LOOKBACK, end)
             last_newline == rfind(text, "\n", end - BREAK_LOOKBACK, end)
             break_point == Max({last_period, last_newline})
         IN  IF break_point > start THEN break_point + 1 ELSE end
    ELSE end

\* texts to chunk, beyond the short ones: 'a\na a'
CHUNK_INPUT_1 ==
    <<"a", "\n", "a", " ", "a">>
ChunkTexts == {CHUNK_INPUT_1} \cup ShortTexts({"a", ".", " "}, MaxChunkTextLen)

ChunkInit ==
    /\ ct_pc = "called"
    /\ ct_text \in ChunkTexts
    /\ ct_chunk_size \in 1..MaxChunkSize
    /\ ct_overlap \in 0..MaxOverlap
    /\ ct_start = 0
    /\ ct_chunks = <<>>
    /\ ct_windows = <<>>
    /\ ct_out = <<>>

\* chunk_text is not being called
ChunkIdle ==
    /\ ct_pc = "idle"
    /\ ct_text = <<>>
    /\ ct_chunk_size = 0
    /\ ct_overlap = 0
    /\ ct_start = 0
    /\ ct_chunks = <<>>
    /\ ct_windows = <<>>
    /\ ct_out = <<>>

\* if not text or len(text) <= chunk_size: return [text] if text else []
ReturnShort ==
    /\ ct_pc = "called"
    /\ ct_text = <<>> \/ Len(ct_text) <= ct_chunk_size
    /\ ct_out' = IF ct_text # <<>> THEN <<ct_text>> ELSE <<>>
    /\ ct_pc' = "returned"
    /\ UNCHANGED <<ct_text, ct_chunk_size, ct_overlap, ct_start, ct_chunks, ct_windows>>

\* chunks = []; start = 0
EnterLoop ==
    /\ ct_pc = "called"
    /\ ~(ct_text = <<>> \/ Len(ct_text) <= ct_chunk_size)
    /\ ct_chunks' = <<>>
    /\ ct_start' = 0
    /\ ct_pc' = "loop"
    /\ UNCHANGED <<ct_text, ct_chunk_size, ct_overlap, ct_windows, ct_out>>

\* one iteration of  while start < len(text)
LoopIteration ==
    /\ ct_pc = "loop"
    /\ ct_start < Len(ct_text)
    /\ Len(ct_windows) < MaxIterations
    /\ LET end == SliceEnd(ct_text, ct_start, ct_chunk_size) IN
       /\ ct_chunks' = Append(ct_chunks, Strip(Slice(ct_text, ct_start, end)))
       /\ ct_windows' = Append(ct_windows, [start |-> ct_start, end |-> end])
       /\ ct_start' = end - ct_overlap
    /\ UNCHANGED <<ct_pc, ct_text, ct_chunk_size, ct_overlap, ct_out>>

\* the loop is left: return [c for c in chunks if c]
ReturnChunks ==
    /\ ct_pc = "loop"
    /\ ~(ct_start < Len(ct_text))
    /\ ct_out' = SelectSeq(ct_chunks, LAMBDA c : c # <<>>)
    /\ ct_pc' = "returned"
    /\ UNCHANGED <<ct_text, ct_chunk_size, ct_overlap, ct_start, ct_chunks, ct_windows>>

(***************************************************************************)
(* Concurrent calls of chat on the one RAGChat of api.py: each call goes   *)
(* through its steps (retrieval, generation, verification, sanitization)   *)
(* on its own, in any interleaving with the other calls                    *)
(***************************************************************************)
\* the calls that can be in progress at once
Invocations == {1, 2}

VARIABLES
    cc_pc,          \* per call: "idle", "retrieve", "generate", "verify", "sanitize", "done"
    cc_frames,      \* per frame: the local variables of chat
    cc_given,       \* per call: its arguments and what its collaborators returned to it
    cc_response     \* per call: None, or the ChatResponse returned

concVars == <<cc_pc, cc_frames, cc_given, cc_response>>

vars == <<chatVars, qvVars, chunkVars, concVars>>

\* every call keeps its local variables in the frame of one other call
Frame_Shared(i) == 1

\* the frame that holds the local variables of call i: its own
Frame(i) == i

NoFrame ==
    [args |-> NoArgs, results |-> <<>>, relevant_results |-> <<>>, messages |-> <<>>,
     answer |-> <<>>, citations |-> <<>>, quote_verification |-> [status |-> "skipped"]]

NothingGiven == [args |-> NoArgs, rows |-> <<>>, answer |-> <<>>]

\* answers the generation gives to concurrent calls
ConcAnswers == {ANSWER_5, ANSWER_6, ANSWER_7}

ConcInit ==
    /\ cc_pc = [i \in Invocations |-> "idle"]
    /\ cc_frames = [f \in Invocations |-> NoFrame]
    /\ cc_given = [i \in Invocations |-> NothingGiven]
    /\ cc_response = [i \in Invocations |-> None]

\* no concurrent call is modelled
ConcIdle ==
    /\ cc_pc = <<>>
    /\ cc_frames = <<>>
    /\ cc_given = <<>>
    /\ cc_response = <<>>

\* return ChatResponse(answer=answer, citations=citations, ...)
ResponseOf(frame) ==
    [answer |-> frame.answer, citations |-> frame.citations,
     sources_used |-> frame.relevant_results,
     quote_verification |-> frame.quote_verification,
     refused |-> FALSE, refusal_reason |-> None]

\* call i of chat starts with its arguments
ConcCall(i, query, n_sources, min_relevance, verify_quotes, filename_filter) ==
    LET call_args == [query |-> query, n_sources |-> n_sources,
                      min_relevance |-> min_relevance, verify_quotes |-> verify_quotes,
                      filename_filter |-> filename_filter]
    IN  /\ cc_pc[i] = "idle"
        /\ cc_pc' = [cc_pc EXCEPT ![i] = "retrieve"]
        /\ cc_frames' = [cc_frames EXCEPT ![Frame(i)] = [NoFrame EXCEPT !.args = call_args]]
        /\ cc_given' = [cc_given EXCEPT ![i] = [NothingGiven EXCEPT !.args = call_args]]
        /\ cc_response' = [cc_response EXCEPT ![i] = None]

\* the search of call i returns rs: the relevance gate, then the refusal or
\* the messages for the generation
ConcRetrieve(i, rs) ==
    LET frame == cc_frames[Frame(i)]
        relevant == RelevantResults(rs, frame.args.min_relevance)
    IN  /\ cc_pc[i] = "retrieve"
        /\ cc_given' = [cc_given EXCEPT ![i].rows = rs]
        /\ IF NoRelevantSources(rs, relevant)
           THEN /\ cc_frames' = [cc_frames EXCEPT ![Frame(i)].results = rs,
                                                  ![Frame(i)].relevant_results = relevant]
                /\ cc_response' = [cc_response EXCEPT ![i] = Some(Refusal)]
                /\ cc_pc' = [cc_pc EXCEPT ![i] = "done"]
           ELSE /\ cc_frames' = [cc_frames EXCEPT
                                    ![Frame(i)].results = rs,
                                    ![Frame(i)].relevant_results = relevant,
                                    ![Frame(i)].messages =
                                        BuildMessages(frame.args.query, relevant)]
                /\ cc_pc' = [cc_pc EXCEPT ![i] = "generate"]
                /\ UNCHANGED cc_response

\* the generation of call i returns answer: the citations are built, and
\* without verify_quotes the response is returned
ConcGenerate(i, answer) ==
    LET frame == cc_frames[Frame(i)]
        after == [frame EXCEPT !.answer = answer,
                               !.citations = BuildCitations(frame.relevant_results),
                               !.quote_verification = [status |-> "skipped"]]
    IN  /\ cc_pc[i] = "generate"
        /\ cc_given' = [cc_given EXCEPT ![i].answer = answer]
        /\ cc_frames' = [cc_frames EXCEPT ![Frame(i)] = after]
        /\ IF frame.args.verify_quotes
           THEN /\ cc_pc' = [cc_pc EXCEPT ![i] = "verify"]
                /\ UNCHANGED cc_response
           ELSE /\ cc_pc' = [cc_pc EXCEPT ![i] = "done"]
                /\ cc_response' = [cc_response EXCEPT ![i] = Some(ResponseOf(after))]

\* call i verifies the quotes of its answer against its sources
ConcVerify(i) ==
    LET frame == cc_frames[Frame(i)]
        after == [frame EXCEPT !.quote_verification =
                     verify_quotes_in_response(
                         frame.answer,
                         _build_sources_for_verification(frame.relevant_results),
                         DEFAULT_THRESHOLD)]
    IN  /\ cc_pc[i] = "verify"
        /\ cc_frames' = [cc_frames EXCEPT ![Frame(i)] = after]
        /\ IF after.quote_verification.all_verified
           THEN /\ cc_pc' = [cc_pc EXCEPT ![i] = "done"]
                /\ cc_response' = [cc_response EXCEPT ![i] = Some(ResponseOf(after))]
           ELSE /\ cc_pc' = [cc_pc EXCEPT ![i] = "sanitize"]
                /\ UNCHANGED cc_response
        /\ UNCHANGED cc_given

\* call i removes the unverified quotes from its answer, adds the note and
\* returns the response
ConcSanitize(i) ==
    LET frame == cc_frames[Frame(i)]
        after == [frame EXCEPT !.answer =
                     remove_unverified_quotes(frame.answer,
                                              frame.quote_verification.unverified)
                     \o UNVERIFIED_NOTE]
    IN  /\ cc_pc[i] = "sanitize"
        /\ cc_frames' = [cc_frames EXCEPT ![Frame(i)] = after]
        /\ cc_response' = [cc_response EXCEPT ![i] = Some(ResponseOf(after))]
        /\ cc_pc' = [cc_pc EXCEPT ![i] = "done"]
        /\ UNCHANGED cc_given

\* the caller of call i has its response; the frame of the call is dropped
ConcReturn(i) ==
    /\ cc_pc[i] = "done"
    /\ cc_pc' = [cc_pc EXCEPT ![i] = "idle"]
    /\ cc_frames' = [cc_frames EXCEPT ![Frame(i)] = NoFrame]
    /\ cc_given' = [cc_given EXCEPT ![i] = NothingGiven]
    /\ cc_response' = [cc_response EXCEPT ![i] = None]

(***************************************************************************)
(* The specifications                                                      *)
(***************************************************************************)
\* RAGChat.chat serving calls
Init == ChatInit /\ QVIdle /\ ChunkIdle /\ ConcIdle

Next ==
    \/ /\ pc = "idle"
       /\ \E q \in Queries, n \in 1..MaxSources, m \in MinRelevances,
             v \in BOOLEAN, f \in {None} \cup {Some(c.filename) : c \in store} :
             Chat(q, n, m, v, f)
       /\ UNCHANGED <<qvVars, chunkVars, concVars>>
    \/ /\ pc = "searching"
       /\ \E rs \in SearchRows(store, args.n_sources, args.filename_filter) :
             SearchReturns(rs)
       /\ UNCHANGED <<qvVars, chunkVars, concVars>>
    \/ SearchRaises /\ UNCHANGED <<qvVars, chunkVars, concVars>>
    \/ /\ pc = "generating"
       /\ \E answer \in Answers : GenerateReturns(answer)
       /\ UNCHANGED <<qvVars, chunkVars, concVars>>
    \/ GenerateRaises /\ UNCHANGED <<qvVars, chunkVars, concVars>>
    \/ Return /\ UNCHANGED <<qvVars, chunkVars, concVars>>

Spec == Init /\ [][Next]_vars

\* the functions of quote_verify.py applied to drawn inputs
InitQV == ChatIdle /\ QVInit /\ ChunkIdle /\ ConcIdle

NextQV ==
    \/ ExtractQuotes /\ UNCHANGED <<chatVars, chunkVars, concVars>>
    \/ \E threshold \in Thresholds :
          FindQuoteInSource(threshold) /\ UNCHANGED <<chatVars, chunkVars, concVars>>
    \/ \E threshold \in Thresholds :
          VerifyQuotesInResponse(threshold) /\ UNCHANGED <<chatVars, chunkVars, concVars>>
    \/ \E flags \in [1..Len(extract_quotes(q_text)) -> BOOLEAN] :
          RemoveUnverifiedQuotes(flags) /\ UNCHANGED <<chatVars, chunkVars, concVars>>

SpecQV == InitQV /\ [][NextQV]_vars

\* chunk_text called on drawn arguments
InitChunk == ChatIdle /\ QVIdle /\ ChunkInit /\ ConcIdle

NextChunk ==
    \/ ReturnShort /\ UNCHANGED <<chatVars, qvVars, concVars>>
    \/ EnterLoop /\ UNCHANGED <<chatVars, qvVars, concVars>>
    \/ LoopIteration /\ UNCHANGED <<chatVars, qvVars, concVars>>
    \/ ReturnChunks /\ UNCHANGED <<chatVars, qvVars, concVars>>

SpecChunk == InitChunk /\ [][NextChunk]_vars

\* concurrent calls of chat on one RAGChat over the indexed chunks
InitConc == NoCall /\ store = Chunks /\ QVIdle /\ ChunkIdle /\ ConcInit

NextConc ==
    \/ \E i \in Invocations, m \in MinRelevances, v \in BOOLEAN :
          ConcCall(i, <<"a", "?">>, 1, m, v, None)
          /\ UNCHANGED <<chatVars, qvVars, chunkVars>>
    \/ \E i \in Invocations :
          /\ cc_pc[i] = "retrieve"
          /\ \E rs \in SearchRows(store, cc_frames[Frame(i)].args.n_sources,
                                   cc_frames[Frame(i)].args.filename_filter) :
                ConcRetrieve(i, rs)
          /\ UNCHANGED <<chatVars, qvVars, chunkVars>>
    \/ \E i \in Invocations, answer \in ConcAnswers :
          ConcGenerate(i, answer) /\ UNCHANGED <<chatVars, qvVars, chunkVars>>
    \/ \E i \in Invocations : ConcVerify(i) /\ UNCHANGED <<chatVars, qvVars, chunkVars>>
    \/ \E i \in Invocations : ConcSanitize(i) /\ UNCHANGED <<chatVars, qvVars, chunkVars>>
    \/ \E i \in Invocations : ConcReturn(i) /\ UNCHANGED <<chatVars, qvVars, chunkVars>>

SpecConc == InitConc /\ [][NextConc]_vars

(***************************************************************************)
(* Claims about RAGChat.chat, checked under Spec                           *)
(***************************************************************************)
\* the call has returned a ChatResponse
Responded == pc = "done" /\ response # None

Answered == Responded /\ ~response[1].refused

AllBelow == \A i \in 1..Len(results) : results[i].score < args.min_relevance

CalledAt(name) == {i \in 1..Len(calls) : calls[i] = name}

EndsWith(s, suffix) ==
    Len(suffix) <= Len(s) /\ SubSeq(s, Len(s) - Len(suffix) + 1, Len(s)) = suffix

\* the sources chat gives to the verification
VerifySources == _build_sources_for_verification(relevant_results)

\* the indexes of the quotes of text that no source of sources matches
Unmatched(text, sources, threshold) ==
    {i \in 1..Len(extract_quotes(text)) :
        find_quote_in_source(extract_quotes(text)[i], sources, threshold) = None}

\* C1: when every score of the raw results (of any length, none included) is
\* below min_relevance, chat returns refused = true, the reason "No relevant
\* sources found", no citation and quote_verification {status: "no_sources"}.
C1_RefusalWhenAllBelow ==
    (pc = "done" /\ AllBelow) =>
        /\ response # None
        /\ response[1].refused = TRUE
        /\ response[1].refusal_reason = Some("No relevant sources found")
        /\ response[1].citations = <<>>
        /\ response[1].quote_verification = [status |-> "no_sources"]

C1_Witness ==
    /\ pc = "done"
    /\ Len(results) >= 2
    /\ AllBelow
    /\ response[1].refused

\* C2: in a run of chat the generation is called at most once, only after the
\* search has returned, and only if some result has score >= min_relevance; a
\* run that ends in a refusal never calls it.
C2_GenerationGated ==
    /\ Cardinality(CalledAt("generate")) <= 1
    /\ \A i \in CalledAt("generate") :
          /\ \E j \in CalledAt("search returned") : j < i
          /\ \E k \in 1..Len(results) : results[k].score >= args.min_relevance
    /\ (response # None /\ response[1].refused) => CalledAt("generate") = {}

C2_Witness ==
    /\ Answered
    /\ CalledAt("generate") # {}
    /\ \E k \in 1..Len(results) : results[k].score < args.min_relevance

\* C7: with verification on, only verified quotes survive: every quote that
\* extract_quotes finds in the sanitized answer (remove_unverified_quotes of
\* the draft and the report's unverified list) is a quote of the verified list.
C7_OnlyVerifiedSurvive ==
    (Answered /\ args.verify_quotes) =>
        LET report == response[1].quote_verification
            sanitized == remove_unverified_quotes(draft, report.unverified)
            survivors == extract_quotes(sanitized)
        IN  \A i \in 1..Len(survivors) :
                \E j \in 1..Len(report.verified) :
                    report.verified[j].quote = survivors[i]

\* C9: with verification on and no refusal, the answer is the draft when no
\* extracted quote is unverified; when one is, the answer holds the mark of a
\* removed quote and ends with the note, so nothing is removed without the note.
C9_NoteWhenRemoved ==
    (Answered /\ args.verify_quotes) =>
        LET answer == response[1].answer
            unmatched == Unmatched(draft, VerifySources, DEFAULT_THRESHOLD)
        IN  /\ unmatched = {} => answer = draft
            /\ unmatched # {} =>
                  /\ IsSubstring(UNVERIFIED_MARK, answer)
                  /\ EndsWith(answer, UNVERIFIED_NOTE)
            /\ answer # draft => EndsWith(answer, UNVERIFIED_NOTE)

C9_Witness ==
    /\ Answered
    /\ args.verify_quotes
    /\ response[1].quote_verification.status = "partial"
    /\ IsSubstring(UNVERIFIED_MARK, response[1].answer)

\* C10: with verify_quotes false and a source past the gate, the status is
\* "skipped", neither the extractor nor the sanitizer runs, and the answer is
\* the draft whatever it quotes.
C10_SkippedLeavesDraft ==
    (Answered /\ ~args.verify_quotes) =>
        /\ response[1].quote_verification = [status |-> "skipped"]
        /\ response[1].answer = draft
        /\ CalledAt("verify_quotes_in_response") = {}
        /\ CalledAt("extract_quotes") = {}
        /\ CalledAt("remove_unverified_quotes") = {}

C10_Witness ==
    /\ Answered
    /\ ~args.verify_quotes
    /\ Unmatched(draft, VerifySources, DEFAULT_THRESHOLD) # {}
    /\ response[1].answer = draft

\* C11: every citation of a ChatResponse has a snippet of at most 150
\* characters, whatever the length of the text of the source chunk.
C11_SnippetAtMost150 ==
    Responded =>
        \A i \in 1..Len(response[1].citations) :
            Len(response[1].citations[i].snippet) <= 150

\* the retrieved results with score >= min_relevance, in rank order
Kept == SelectSeq(results, LAMBDA r : r.score >= args.min_relevance)

\* C19: in a run that is not refused, the generation context, the citations
\* and the source list of the quote verification are built from exactly the
\* retrieved results with score >= min_relevance (a score equal to it is
\* kept), in rank order, one citation per kept result.
C19_BuiltFromKeptResults ==
    Answered =>
        /\ messages = BuildMessages(args.query, Kept)
        /\ Len(response[1].citations) = Len(Kept)
        /\ \A i \in 1..Len(Kept) :
              LET citation == response[1].citations[i]
                  shown == Min({SNIPPET_LEN, Len(Kept[i].text)})
              IN  /\ citation.filename = Kept[i].filename
                  /\ citation.page_number = Kept[i].page_number
                  /\ citation.relevance_score = Kept[i].score
                  /\ SubSeq(citation.snippet, 1, shown) = SubSeq(Kept[i].text, 1, shown)
        /\ response[1].sources_used = Kept
        /\ args.verify_quotes =>
              response[1].quote_verification =
                  verify_quotes_in_response(
                      draft,
                      [i \in 1..Len(Kept) |->
                          [text |-> Kept[i].text, filename |-> Kept[i].filename,
                           page_number |-> Kept[i].page_number]],
                      DEFAULT_THRESHOLD)

\* of two results, the one with the score min_relevance is kept and the one
\* below is dropped
C19_Witness ==
    /\ Answered
    /\ args.verify_quotes
    /\ Len(results) = 2
    /\ results[1].score = args.min_relevance
    /\ results[2].score < args.min_relevance
    /\ Len(response[1].citations) = 1
    /\ response[1].quote_verification.status # "no_quotes"

(***************************************************************************)
(* Claims about the functions of quote_verify.py, checked under SpecQV     *)
(***************************************************************************)
Found == q_op = "find_quote_in_source"
Verified == q_op = "verify_quotes_in_response"
Removed == q_op = "remove_unverified_quotes"

\* the quotes of the text, as extract_quotes gives them
Quotes == extract_quotes(q_text)

\* the quote, normalized, is a substring of the normalized text of the source
ExactIn(quote, source) ==
    IsSubstring(normalize_text(quote), normalize_text(source.text))

\* the source qualifies for the quote: exactly, or by a window of the quote's
\* length that reaches the threshold
Qualifies(quote, source, threshold) ==
    \/ ExactIn(quote, source)
    \/ LET nq == normalize_text(quote)
           ns == normalize_text(source.text)
       IN  \E i \in 1..(Len(ns) - Len(nq) + 1) :
               RatioAtLeast(nq, SubSeq(ns, i, i + Len(nq) - 1), threshold)

\* the indexes of the sources that qualify for the quote
Qualifying(quote) ==
    {k \in 1..Len(q_sources) : Qualifies(quote, q_sources[k], q_threshold)}

VerifiedQuotes == {q_out.verified[i].quote : i \in 1..Len(q_out.verified)}
UnverifiedQuotes == {q_out.unverified[i] : i \in 1..Len(q_out.unverified)}

\* C3: the status is "no_quotes" iff no quote is extracted, "verified" iff one
\* is and every one matched, "unverified" iff one is and none matched,
\* "partial" iff one matched and one did not.
C3_StatusIff ==
    Verified =>
        LET matched == {i \in 1..Len(Quotes) :
                          find_quote_in_source(Quotes[i], q_sources, q_threshold) # None}
            all == 1..Len(Quotes)
        IN  /\ q_out.status = "no_quotes" <=> Quotes = <<>>
            /\ q_out.status = "verified" <=> (Quotes # <<>> /\ matched = all)
            /\ q_out.status = "unverified" <=> (Quotes # <<>> /\ matched = {})
            /\ q_out.status = "partial" <=> (matched # {} /\ matched # all)

C3_Witness ==
    /\ Verified
    /\ q_out.status = "partial"
    /\ Len(q_out.verified) >= 1
    /\ Len(q_out.unverified) >= 1

\* C4, as stated: when the normalized quote is a substring of the normalized
\* text of a source S of the list, find_quote_in_source returns that source S,
\* and verify_quotes_in_response puts the quote in the verified list and not in
\* the unverified one.  (Stated for the quotes with a character left after
\* normalization, which are the ones the claim is about.)
C4_ReturnsThatSource ==
    /\ Found =>
          \A k \in 1..Len(q_sources) :
              (normalize_text(q_text) # <<>> /\ ExactIn(q_text, q_sources[k])) =>
                  q_out = Some(q_sources[k])
    /\ Verified =>
          \A i \in 1..Len(Quotes) :
              (\E k \in 1..Len(q_sources) : ExactIn(Quotes[i], q_sources[k])) =>
                  Quotes[i] \in VerifiedQuotes /\ Quotes[i] \notin UnverifiedQuotes

\* C4, amended: when the normalized quote is a substring of the normalized
\* text of a source S of the list, find_quote_in_source returns S or a source
\* that comes before S in the list, and S itself when no source before S
\* qualifies; verify_quotes_in_response puts the quote in the verified list and
\* not in the unverified one.
C4_ReturnsThatSourceOrEarlier ==
    /\ Found =>
          LET qualifying == Qualifying(q_text) IN
          \A k \in 1..Len(q_sources) :
              ExactIn(q_text, q_sources[k]) =>
                  /\ \E j \in 1..k : q_out = Some(q_sources[j])
                  /\ (\A j \in 1..(k - 1) : j \notin qualifying) =>
                        q_out = Some(q_sources[k])
    /\ Verified =>
          \A i \in 1..Len(Quotes) :
              (\E k \in 1..Len(q_sources) : ExactIn(Quotes[i], q_sources[k])) =>
                  Quotes[i] \in VerifiedQuotes /\ Quotes[i] \notin UnverifiedQuotes

\* a quote that only the second source holds exactly, returned from there
C4_Witness ==
    /\ Found
    /\ Len(q_sources) >= 2
    /\ ~ExactIn(q_text, q_sources[1])
    /\ ExactIn(q_text, q_sources[2])
    /\ normalize_text(q_text) # <<>>
    /\ q_out = Some(q_sources[2])

\* C5: find_quote_in_source returns the source of lowest index that qualifies
\* (exactly or by a window reaching the threshold), no source before it
\* qualifies, and the source_file and source_page of a verified quote are
\* those of that source.
C5_FirstQualifying ==
    /\ Found =>
          LET qualifying == Qualifying(q_text) IN
          /\ qualifying # {} => q_out = Some(q_sources[Min(qualifying)])
          /\ q_out # None =>
                \E k \in qualifying :
                    /\ q_out = Some(q_sources[k])
                    /\ \A j \in 1..(k - 1) : j \notin qualifying
    /\ Verified =>
          LET quotes == Quotes
              qualifying == [i \in 1..Len(quotes) |-> Qualifying(quotes[i])]
              \* the place in the verified list of the i-th quote, when it matched
              place(i) == Cardinality({j \in 1..i : qualifying[j] # {}})
          IN  \A i \in 1..Len(quotes) :
                  qualifying[i] # {} =>
                      /\ place(i) <= Len(q_out.verified)
                      /\ q_out.verified[place(i)] =
                            [quote |-> quotes[i],
                             source_file |-> q_sources[Min(qualifying[i])].filename,
                             source_page |-> q_sources[Min(qualifying[i])].page_number]

\* two sources qualify, the first only by a window and the second exactly
C5_Witness ==
    /\ Found
    /\ Qualifying(q_text) = {1, 2}
    /\ ~ExactIn(q_text, q_sources[1])
    /\ ExactIn(q_text, q_sources[2])
    /\ q_out = Some(q_sources[1])

\* C6: when the normalized quote is a substring of no normalized source and no
\* window of the quote's length reaches the threshold in any source (a source
\* shorter than the quote has no window), find_quote_in_source returns none
\* and verify_quotes_in_response puts the quote in the unverified list.
C6_NoneWhenNothingQualifies ==
    /\ Found => (Qualifying(q_text) = {} => q_out = None)
    /\ Verified =>
          \A i \in 1..Len(Quotes) :
              Qualifying(Quotes[i]) = {} =>
                  Quotes[i] \in UnverifiedQuotes /\ Quotes[i] \notin VerifiedQuotes

\* nothing qualifies although one source is shorter than the quote and another
\* has windows
C6_Witness ==
    /\ Found
    /\ Qualifying(q_text) = {}
    /\ \E k \in 1..Len(q_sources) :
          Len(normalize_text(q_sources[k].text)) < Len(normalize_text(q_text))
    /\ \E k \in 1..Len(q_sources) :
          Len(normalize_text(q_sources[k].text)) > Len(normalize_text(q_text))
    /\ q_out = None

\* the spans the unverified quotes given to remove_unverified_quotes were
\* extracted from
UnverifiedSpans ==
    {extract_spans(q_text)[i] : i \in {j \in 1..Len(q_unverified) : q_unverified[j]}}

\* the text from position p on with every span of spans replaced by the mark
\* and every character outside them kept
RECURSIVE Spliced(_, _, _)
Spliced(text, spans, p) ==
    IF p > Len(text) THEN <<>>
    ELSE IF \E sp \in spans : sp.start = p
    THEN UNVERIFIED_MARK
         \o Spliced(text, spans, (CHOOSE sp \in spans : sp.start = p).end + 1)
    ELSE <<text[p]>> \o Spliced(text, spans, p + 1)

\* C8: remove_unverified_quotes changes only the unverified quoted spans:
\* every character outside the spans the unverified quotes were extracted from
\* is kept, in order, and each such span is replaced by the mark.
C8_OnlyUnverifiedSpansChange ==
    Removed => q_out = Spliced(q_text, UnverifiedSpans, 1)

(***************************************************************************)
(* Claims about concurrent calls of chat, checked under SpecConc           *)
(***************************************************************************)
\* the ChatResponse of a call of chat run alone with these arguments, these
\* rows from the search and this answer from the generation
ChatAlone(call_args, rows, answer) ==
    LET relevant == RelevantResults(rows, call_args.min_relevance) IN
    IF NoRelevantSources(rows, relevant) THEN Refusal
    ELSE LET quote_verification ==
                 QuoteVerification(call_args.verify_quotes, answer, relevant)
         IN  [answer |-> FinalAnswer(call_args.verify_quotes, answer, quote_verification),
              citations |-> BuildCitations(relevant),
              sources_used |-> relevant,
              quote_verification |-> quote_verification,
              refused |-> FALSE, refusal_reason |-> None]

\* C17: under every interleaving of the steps of concurrent calls of chat on
\* the same RAGChat, each call returns the ChatResponse it would return run
\* alone with the same arguments and the same collaborator outputs.
C17_CallsIndependent ==
    \A i \in Invocations :
        (cc_pc # <<>> /\ cc_pc[i] = "done") =>
            cc_response[i] =
                Some(ChatAlone(cc_given[i].args, cc_given[i].rows, cc_given[i].answer))

\* call 1 has returned a sanitized answer while call 2, with other arguments,
\* other rows and another answer, is between its verification and its
\* sanitization
C17_Witness ==
    /\ cc_pc # <<>>
    /\ cc_pc[1] = "done"
    /\ cc_pc[2] = "sanitize"
    /\ ~cc_response[1][1].refused
    /\ cc_response[1][1].quote_verification.status = "partial"
    /\ cc_given[1].args # cc_given[2].args
    /\ cc_given[1].rows # cc_given[2].rows
    /\ cc_given[1].answer # cc_given[2].answer

(***************************************************************************)
(* Claims about chunk_text, checked under SpecChunk                        *)
(***************************************************************************)
\* chunk_text went through its loop
Looped == ct_pc \in {"loop", "returned"} /\ Len(ct_text) > ct_chunk_size /\ ct_text # <<>>

\* the character at 0-based position i lies in a window sliced so far
InWindow(i) ==
    \E k \in 1..Len(ct_windows) : ct_windows[k].start <= i /\ i < ct_windows[k].end

\* the cursor is back at a position a slice was already taken from: the
\* iteration depends on the cursor alone, so the same slices repeat for ever
CursorRepeats == \E k \in 1..Len(ct_windows) : ct_windows[k].start = ct_start

\* C12: for a text no longer than chunk_size, chunk_text returns the empty
\* list when the text is empty and otherwise one chunk, the text with leading
\* and trailing whitespace removed.
C12_ShortTextOneTrimmedChunk ==
    (ct_pc = "returned" /\ Len(ct_text) <= ct_chunk_size) =>
        ct_out = IF ct_text = <<>> THEN <<>> ELSE <<Strip(ct_text)>>

\* C13: with 0 <= overlap < chunk_size, the windows chunk_text slices cover
\* the text with no gaps: each window after the first starts at or before the
\* end of the one before, every character position lies in a window when the
\* list is returned, and the loop does not settle into repeating its slices
\* while a position is still outside every window.
C13_WindowsCover ==
    (Looped /\ ct_overlap < ct_chunk_size) =>
        /\ \A k \in 2..Len(ct_windows) : ct_windows[k].start <= ct_windows[k - 1].end
        /\ ct_pc = "returned" => \A i \in 0..(Len(ct_text) - 1) : InWindow(i)
        /\ CursorRepeats => \A i \in 0..(Len(ct_text) - 1) : InWindow(i)

\* C14: with 0 <= overlap < chunk_size, the cursor start is greater after
\* every iteration than before it, also when the cut was moved back to a '.'
\* or a newline, and it is never negative.
C14_CursorAdvances ==
    (Looped /\ ct_overlap < ct_chunk_size) =>
        /\ ct_start >= 0
        /\ \A k \in 1..Len(ct_windows) : ct_windows[k].start >= 0
        /\ \A k \in 2..Len(ct_windows) : ct_windows[k].start > ct_windows[k - 1].start
        /\ ct_windows # <<>> => ct_start > ct_windows[Len(ct_windows)].start

\* C15: called with overlap >= chunk_size on a text longer than chunk_size,
\* chunk_text fails before slicing anything: it does not enter the loop,
\* takes no slice and returns no list.
C15_BadOverlapRejected ==
    (ct_pc # "idle" /\ ct_overlap >= ct_chunk_size /\ Len(ct_text) > ct_chunk_size) =>
        /\ ct_pc = "called"
        /\ ct_windows = <<>>

(***************************************************************************)
(* Claims about extract_quotes and verify_quotes_in_response, checked      *)
(* under SpecQV                                                            *)
(***************************************************************************)
Extracted == q_op = "extract_quotes"

\* positions p < q of text hold delim, with minLen or more characters between
\* them and no delim among these
Delimited(text, p, q, delim, minLen) ==
    /\ text[p] = delim
    /\ text[q] = delim
    /\ q - p - 1 >= minLen
    /\ \A k \in (p + 1)..(q - 1) : text[k] # delim

\* spans are the non-overlapping delimited spans of text met scanning left to
\* right: each is delimited, they follow one another, and no delimited span
\* starts at a position left outside them
LeftToRightSpans(spans, text, delim, minLen) ==
    /\ \A k \in 1..Len(spans) :
          /\ Delimited(text, spans[k].start, spans[k].end, delim, minLen)
          /\ spans[k].quote = SubSeq(text, spans[k].start + 1, spans[k].end - 1)
    /\ \A k \in 2..Len(spans) : spans[k - 1].end < spans[k].start
    /\ \A p \in 1..Len(text) :
          (\A k \in 1..Len(spans) : p < spans[k].start \/ p > spans[k].end) =>
              ~\E q \in (p + 1)..Len(text) : Delimited(text, p, q, delim, minLen)

\* C16: extract_quotes returns the content of every non-overlapping
\* double-quote-delimited span with non-empty content, scanning left to
\* right, and after them what the single-quote rule gives, which is never a
\* content of fewer than 10 characters.
C16_DoubleSpansAndLongSingles ==
    Extracted =>
        LET doubles == double_quotes(q_text)
            singles == single_quotes(q_text)
        IN  /\ LeftToRightSpans(doubles, q_text, DQ, 1)
            /\ \A k \in 1..Len(singles) : Len(singles[k].quote) >= 10
            /\ q_out = [k \in 1..Len(doubles) |-> doubles[k].quote]
                        \o [k \in 1..Len(singles) |-> singles[k].quote]

\* a double-quoted span is returned and a short single-quoted one is not
C16_Witness ==
    /\ Extracted
    /\ Len(q_out) = 1
    /\ double_quotes(q_text) # <<>>
    /\ \E p, q \in 1..Len(q_text) :
          p < q /\ q - p - 1 < 10 /\ Delimited(q_text, p, q, SQ, 1)

\* the quote strings of the verified records, in the order of the list
VerifiedSeq == [i \in 1..Len(q_out.verified) |-> q_out.verified[i].quote]

\* C18: verify_quotes_in_response puts every extracted quote occurrence,
\* duplicates included, in exactly one of the two lists: the lists together
\* are as long as the list of extracted quotes, each keeps the extraction
\* order, no quote string is in both, and all_verified is true iff the
\* unverified list is empty.
C18_EveryQuoteInOneList ==
    Verified =>
        /\ Len(q_out.verified) + Len(q_out.unverified) = Len(Quotes)
        /\ VerifiedQuotes \cap UnverifiedQuotes = {}
        /\ VerifiedSeq = SelectSeq(Quotes, LAMBDA q : q \in VerifiedQuotes)
        /\ q_out.unverified = SelectSeq(Quotes, LAMBDA q : q \in UnverifiedQuotes)
        /\ q_out.all_verified <=> q_out.unverified = <<>>

\* a quote extracted twice lands twice in the verified list, beside a quote
\* that is unverified
C18_Witness ==
    /\ Verified
    /\ \E i, j \in 1..Len(VerifiedSeq) : i < j /\ VerifiedSeq[i] = VerifiedSeq[j]
    /\ q_out.unverified # <<>>
    /\ ~q_out.all_verified

\* a letter
IsLetter(c) ==
    \E k \in 1..Len(UpperChars) : c = UpperChars[k] \/ c = LowerChars[k]

\* every single-quote character of the text is an apostrophe inside a word
OnlyApostrophes(text) ==
    \A p \in 1..Len(text) :
        text[p] = SQ =>
            p > 1 /\ p < Len(text) /\ IsLetter(text[p - 1]) /\ IsLetter(text[p + 1])

\* C20: for a text whose single-quote characters are all apostrophes inside
\* words, extract_quotes returns no span of the single-quote rule, however far
\* apart the apostrophes are: it returns the double-quoted contents alone.
C20_ApostrophesNotQuoted ==
    (Extracted /\ OnlyApostrophes(q_text)) =>
        q_out = [k \in 1..Len(double_quotes(q_text)) |-> double_quotes(q_text)[k].quote]

\* the quote has no character left after normalize_text
Blank(quote) == normalize_text(quote) = <<>>

\* C21: verify_quotes_in_response reports a quote verified only if it has at
\* least one character after trimming: a double-quoted span whose content is
\* only whitespace (normalized text empty) is never in the verified list,
\* whatever the source list.
C21_BlankQuoteNeverVerified ==
    Verified => \A i \in 1..Len(q_out.verified) : ~Blank(q_out.verified[i].quote)

====
